---- MODULE Spec2Model ----
(***************************************************************************)
(* Model of extract.py: the pledge-report extractor.                       *)
(*                                                                         *)
(* Text is modelled at character level: a string is a sequence of          *)
(* one-character strings, so the regular expressions, the whitespace       *)
(* normalisation and the name abbreviation are computed, not assumed.      *)
(* A missing pandas cell (NaN) is the one-element sequence <<"NaN">>,      *)
(* which no character sequence equals.                                     *)
(***************************************************************************)
EXTENDS Integers, Sequences, FiniteSets, TLC

VARIABLES
    pc,             \* position of the run (each specification has its own labels)
    \* normalize_name_for_lookup applied twice
    name,           \* the argument
    key1,           \* normalize_name_for_lookup(name)
    key2,           \* normalize_name_for_lookup(key1)
    \* the two derivations of the join key
    INDFIRSTNAME,   \* a lookup row's first-name cell
    INDLASTNAME,    \* a lookup row's last-name cell
    abbrev_key,     \* the key load_account_lookup derives for that row
    join_key,       \* the key apply_account_lookup derives for the name 'F L'
    \* the line parser on a constructed line
    fields,         \* the field values S, N, C, T, A, B the line is built from
    line,           \* the line 'S N C T A B'
    parsed,         \* the records the parser yields for it
    \* extract_rows_from_pdf
    doc,            \* pdf.pages: a sequence of pages, each the sequence of its text lines
    pdf_name,       \* pdf_path.name
    page_num,       \* the page being read (0 before the first)
    ln_num,         \* the last line of that page already processed
    rows,           \* the accumulator
    matched_any,    \* whether a line of the current page matched
    warnings,       \* the pages reported with no transaction line
    origin,         \* history: for each row, the file, page and line it was parsed from
    \* lookup enrichment
    lookup_file,    \* the lookup CSV on disk: absent, or its columns and rows
    lookup_df,      \* what load_account_lookup returned
    lookup_outcome, \* how load_account_lookup ended
    df,             \* the table of records
    df_in,          \* history: df as built from the parsed records
    df_dup,         \* history: df just before drop_duplicates
    \* main
    input_dir,      \* the PDFs of the input folder: name -> document
    pdf_files,      \* sorted list of the names
    file_idx,       \* files already extracted
    all_rows,       \* rows of all files
    all_origin,     \* history: origin of each of all_rows
    log,            \* the messages printed
    calls,          \* history: the steps of main taken after extraction
    written         \* the tables written to OUTPUT_XLSX

nameVars == <<name, key1, key2>>
keyVars == <<INDFIRSTNAME, INDLASTNAME, abbrev_key, join_key>>
lineVars == <<fields, line, parsed>>
extractVars == <<doc, pdf_name, page_num, ln_num, rows, matched_any, warnings, origin>>
lookupVars == <<lookup_file, lookup_df, lookup_outcome, df, df_in, df_dup>>
mainVars == <<input_dir, pdf_files, file_idx, all_rows, all_origin, log, calls, written>>
vars == <<pc, nameVars, keyVars, lineVars, extractVars, lookupVars, mainVars>>

(***************************************************************************)
(* Bounds of the model.                                                    *)
(***************************************************************************)
MaxNameLen == 5
MaxCellLen == 3
MaxNameTokens == 4
MaxDocLines == 3
MaxRows == 2
MaxLookupRows == 2
MaxFiles == 2

(***************************************************************************)
(* Characters and strings.                                                 *)
(***************************************************************************)
NaN == <<"NaN">>
Empty == <<>>

Digits == {"0","1","2","3","4","5","6","7","8","9"}
LowerLetters == <<"a","b","c","d","e","f","g","h","i","j","k","l","m","n","o","p","q","r","s","t","u","v","w","x","y","z">>
UpperLetters == <<"A","B","C","D","E","F","G","H","I","J","K","L","M","N","O","P","Q","R","S","T","U","V","W","X","Y","Z">>
WhiteSpace == {" ", "\t", "\n", "\r", "\f"}

IsDigit(c) == c \in Digits
IsSpace(c) == c \in WhiteSpace
IsNonSpace(c) == c \notin WhiteSpace
LowerSet == {LowerLetters[i] : i \in 1..26}
UpperSet == {UpperLetters[i] : i \in 1..26}
IsLetter(c) == c \in LowerSet \/ c \in UpperSet
IsWord(c) == IsDigit(c) \/ IsLetter(c) \/ c = "_"

\* The first index j >= i at which P stops holding (Len(s)+1 when it never does):
\* the end of the greedy run of P-characters that starts at i.
InClass(c, class) ==
    CASE class = "space" -> IsSpace(c)
      [] class = "nonspace" -> IsNonSpace(c)
      [] class = "digit" -> IsDigit(c)

RunEnd(s, i, class) ==
    CHOOSE j \in i..(Len(s) + 1) :
        /\ (j = Len(s) + 1 \/ ~InClass(s[j], class))
        /\ \A k \in i..(j - 1) : InClass(s[k], class)

\* str.upper, one character
UpperOf == [c \in LowerSet |-> UpperLetters[CHOOSE i \in 1..26 : LowerLetters[i] = c]]
UpperChar(c) == IF c \in LowerSet THEN UpperOf[c] ELSE c

\* str.upper
upper(s) == [i \in 1..Len(s) |-> UpperChar(s[i])]

\* str.strip
strip(s) ==
    LET lo == RunEnd(s, 1, "space")
    IN IF lo > Len(s) THEN Empty
       ELSE LET hi == CHOOSE j \in lo..Len(s) :
                          /\ IsNonSpace(s[j])
                          /\ \A k \in (j + 1)..Len(s) : IsSpace(s[k])
            IN SubSeq(s, lo, hi)

\* str.split() with no argument: the whitespace-delimited tokens
RECURSIVE split(_)
split(s) ==
    IF s = Empty THEN <<>>
    ELSE IF IsSpace(s[1]) THEN split(SubSeq(s, RunEnd(s, 1, "space"), Len(s)))
    ELSE LET e == RunEnd(s, 1, "nonspace")
         IN <<SubSeq(s, 1, e - 1)>> \o split(SubSeq(s, e, Len(s)))

\* All strings over alphabet A of length at most n
StringsUpTo(A, n) == UNION {[1..k -> A] : k \in 0..n}

(***************************************************************************)
(* normalize_name_for_lookup                                               *)
(***************************************************************************)
\* A slip that keeps the whole first token instead of its initial
normalize_name_keeps_first_token(nm) ==
    LET parts == split(strip(upper(nm)))
    IN IF Len(parts) >= 2
       THEN parts[1] \o <<" ">> \o parts[Len(parts)]
       ELSE strip(upper(nm))

normalize_name_for_lookup(nm) ==
    LET parts == split(strip(upper(nm)))
    IN IF Len(parts) >= 2
       THEN <<parts[1][1]>> \o <<" ">> \o parts[Len(parts)]
       ELSE strip(upper(nm))

\* pandas .astype(str): a missing cell becomes the text 'nan'
astype_str(cell) == IF cell = NaN THEN <<"n","a","n">> ELSE cell

\* load_account_lookup's key of one row:
\*   INDFIRSTNAME.astype(str).str[0].str.upper() + " " + INDLASTNAME.astype(str).str.upper().str.strip()
lookup_abbrev_key(first, last) ==
    <<UpperChar(astype_str(first)[1])>> \o <<" ">> \o strip(upper(astype_str(last)))

(***************************************************************************)
(* Configuration                                                           *)
(***************************************************************************)
DEFAULT_PLEDGE_EQUALS_PAYMENT == TRUE
DEFAULT_PERCENTAGE_100 == TRUE
None == <<"None">>
GN1 == <<"G","N","1">>

(***************************************************************************)
(* LINE_PATTERN                                                            *)
(*   (?P<Seq>\d{13}) \s+ (?P<Name>.*?) \s+ (?P<CheckNumber>\d{1,10}) \s+   *)
(*   (?P<PaymentType>Check|Cash|Card|ACH) \s+ (?P<Amount>\d+(?:\.\d{2}))   *)
(*   \s+ (?P<BatchNumber>\d+)                                              *)
(***************************************************************************)
SeqDigits == 13
MaxCheckDigits == 10
AmountDecimals == 2
PaymentTypes == << <<"C","h","e","c","k">>, <<"C","a","s","h">>, <<"C","a","r","d">>, <<"A","C","H">> >>

NoMatch == [ok |-> FALSE]

StartsWithAt(s, i, w) ==
    /\ i + Len(w) - 1 <= Len(s)
    /\ SubSeq(s, i, i + Len(w) - 1) = w

\* The elements of LINE_PATTERN after the name:
\*   \s+ \d{1,10} \s+ (Check|Cash|Card|ACH) \s+ \d+\.\d{2} \s+ \d+
TailPattern == <<"space", "check", "space", "type", "space", "amount", "space", "batch">>

\* \s+ at index i: the index after the run, 0 when there is no whitespace
SpaceEnd(s, i) ==
    LET j == RunEnd(s, i, "space") IN IF j > i THEN j ELSE 0

\* \d{1,maxCheck} at index i, followed by whitespace
CheckEnd(s, i, maxCheck) ==
    LET j == RunEnd(s, i, "digit") IN IF j - i >= 1 /\ j - i <= maxCheck THEN j ELSE 0

\* (Check|Cash|Card|ACH) at index i
TypeEnd(s, i) ==
    IF \E t \in DOMAIN PaymentTypes : StartsWithAt(s, i, PaymentTypes[t])
    THEN i + Len(PaymentTypes[CHOOSE t \in DOMAIN PaymentTypes : StartsWithAt(s, i, PaymentTypes[t])])
    ELSE 0

\* \d+\.\d{2} at index i
AmountEnd(s, i) ==
    LET dot == RunEnd(s, i, "digit")
    IN IF /\ dot > i
          /\ dot + AmountDecimals <= Len(s)
          /\ s[dot] = "."
          /\ \A k \in (dot + 1)..(dot + AmountDecimals) : IsDigit(s[k])
       THEN dot + 1 + AmountDecimals
       ELSE 0

\* \d+ at index i
BatchEnd(s, i) ==
    LET j == RunEnd(s, i, "digit") IN IF j > i THEN j ELSE 0

\* Every quantifier of the tail is greedy and is followed by a character it
\* cannot itself match, so the greedy run is the only one that can succeed.
ElementEnd(s, i, el, maxCheck) ==
    CASE el = "space" -> SpaceEnd(s, i)
      [] el = "check" -> CheckEnd(s, i, maxCheck)
      [] el = "type" -> TypeEnd(s, i)
      [] el = "amount" -> AmountEnd(s, i)
      [] el = "batch" -> BatchEnd(s, i)

\* The tail matched element by element from index ends[1]: the index where each
\* element ends; the empty sequence when an element does not match
RECURSIVE TailEnds(_, _, _, _)
TailEnds(s, k, ends, maxCheck) ==
    IF k > Len(TailPattern) THEN ends
    ELSE LET e == ElementEnd(s, ends[k], TailPattern[k], maxCheck)
         IN IF e = 0 THEN <<>> ELSE TailEnds(s, k + 1, Append(ends, e), maxCheck)

\* The groups of a tail whose elements end at the indexes b
TailGroups(s, b) ==
    IF b = <<>> THEN NoMatch
    ELSE [ok |-> TRUE,
          CheckNumber |-> SubSeq(s, b[2], b[3] - 1),
          PaymentType |-> SubSeq(s, b[4], b[5] - 1),
          Amount |-> SubSeq(s, b[6], b[7] - 1),
          BatchNumber |-> SubSeq(s, b[8], b[9] - 1),
          end |-> b[9]]

\* The part of LINE_PATTERN after the name, tried with the name ending just
\* before index ne
TailMatchUpTo(s, ne, maxCheck) == TailGroups(s, TailEnds(s, 1, <<ne>>, maxCheck))

\* A pattern whose check number stops at four digits
TailMatchShortCheck(s, ne) == TailMatchUpTo(s, ne, 4)

TailMatch(s, ne) == TailMatchUpTo(s, ne, MaxCheckDigits)

\* Name is .*? (any characters but a newline), lazy: the least index e2 >= e
\* such that the name can end just before e2 and the rest of the pattern
\* matches from there; 0 when there is none
RECURSIVE ShortestNameEnd(_, _)
ShortestNameEnd(s, e) ==
    IF e > Len(s) THEN 0
    ELSE IF IsSpace(s[e])
         THEN IF TailMatch(s, e).ok THEN e
              ELSE IF s[e] = "\n" THEN 0
              ELSE ShortestNameEnd(s, e + 1)
         ELSE ShortestNameEnd(s, RunEnd(s, e, "nonspace"))

\* Whether \d{13}\s can match at index p
SeqAt(s, p) ==
    /\ p + SeqDigits <= Len(s)
    /\ \A k \in p..(p + SeqDigits - 1) : IsDigit(s[k])
    /\ IsSpace(s[p + SeqDigits])

\* \s+ after Seq is greedy: the name starts at the greatest index a in (q, w]
\* from which the rest of the pattern matches; 0 when there is none
RECURSIVE NameStart(_, _, _)
NameStart(s, q, a) ==
    IF a <= q THEN 0
    ELSE IF ShortestNameEnd(s, a) # 0 THEN a
    ELSE NameStart(s, q, a - 1)

\* The groups of the match with Seq at p and the name from ns up to ne
MatchGroups(s, p, ns, ne) ==
    [Seq |-> SubSeq(s, p, p + SeqDigits - 1), Name |-> SubSeq(s, ns, ne - 1)] @@ TailMatch(s, ne)

MatchFrom(s, p, ns) ==
    IF ns = 0 THEN NoMatch ELSE MatchGroups(s, p, ns, ShortestNameEnd(s, ns))

\* LINE_PATTERN tried with Seq starting at index p.  \s+ after Seq is greedy (the
\* longest whitespace run first), Name is lazy (the shortest name first).
MatchAt(s, p) ==
    IF ~SeqAt(s, p) THEN NoMatch
    ELSE MatchFrom(s, p, NameStart(s, p + SeqDigits, RunEnd(s, p + SeqDigits, "space")))

Least(S) == CHOOSE a \in S : \A b \in S : a <= b

\* The match at the leftmost of the start positions ps where LINE_PATTERN matches
RECURSIVE FirstMatch(_, _)
MatchOrNext(s, ps, m) == IF m.ok THEN m ELSE FirstMatch(s, ps \ {Least(ps)})
FirstMatch(s, ps) ==
    IF ps = {} THEN NoMatch ELSE MatchOrNext(s, ps, MatchAt(s, Least(ps)))

\* LINE_PATTERN.finditer(s): the leftmost match at or after index from, then the
\* matches of the rest of the string
RECURSIVE finditer(_, _)
MatchesFrom(s, m) == IF m.ok THEN <<m>> \o finditer(s, m.end) ELSE <<>>
finditer(s, from) ==
    MatchesFrom(s, FirstMatch(s, {p \in from..(Len(s) - SeqDigits) : SeqAt(s, p)}))

(***************************************************************************)
(* GN_PATTERN  \bGN\s*[- ]?(?P<gn>[1-7])\b  (IGNORECASE)                   *)
(***************************************************************************)
GNDigits == {"1","2","3","4","5","6","7"}

\* [- ]? after the greedy \s* that ends at index w: the index of the digit
GNDigitIndex(s, w) == IF w <= Len(s) /\ s[w] = "-" THEN w + 1 ELSE w

\* [1-7]\b at index d: d when it matches, else 0
GNDigitAt(s, d) ==
    IF /\ d <= Len(s)
       /\ s[d] \in GNDigits
       /\ (d = Len(s) \/ ~IsWord(s[d + 1]))
    THEN d ELSE 0

\* The index of the label digit when GN_PATTERN matches at index i, else 0
GNAt(s, i) ==
    IF ~(/\ i + 2 <= Len(s)
         /\ s[i] \in {"G", "g"}
         /\ s[i + 1] \in {"N", "n"}
         /\ (i = 1 \/ ~IsWord(s[i - 1]))) THEN 0
    ELSE GNDigitAt(s, GNDigitIndex(s, RunEnd(s, i + 2, "space")))

\* GN_PATTERN.search(text): the leftmost match
detect_gn_label_on_page(text) ==
    IF \A i \in 1..Len(text) : GNAt(text, i) = 0 THEN None
    ELSE <<"G", "N", text[GNAt(text, CHOOSE i \in 1..Len(text) :
                                       GNAt(text, i) # 0 /\ \A j \in 1..(i - 1) : GNAt(text, j) = 0)]>>

(***************************************************************************)
(* extract_rows_from_pdf, one line                                         *)
(***************************************************************************)
\* re.sub(r"\s+", " ", line)
RECURSIVE collapse_whitespace(_)
collapse_whitespace(s) ==
    IF s = Empty THEN Empty
    ELSE IF IsSpace(s[1])
         THEN <<" ">> \o collapse_whitespace(SubSeq(s, RunEnd(s, 1, "space"), Len(s)))
         ELSE LET e == RunEnd(s, 1, "nonspace")
              IN SubSeq(s, 1, e - 1) \o collapse_whitespace(SubSeq(s, e, Len(s)))

\* The line used as read, without the whitespace normalisation
line_flat_not_normalized(raw) == raw

\* line_flat = re.sub(r"\s+", " ", line).strip()
line_flat_of(raw) == strip(collapse_whitespace(raw))

\* int() of a digit string
DigitValue(c) == CHOOSE v \in 0..9 : <<"0","1","2","3","4","5","6","7","8","9">>[v + 1] = c
RECURSIVE int_of(_)
int_of(ds) == IF ds = Empty THEN 0 ELSE 10 * int_of(SubSeq(ds, 1, Len(ds) - 1)) + DigitValue(ds[Len(ds)])

\* float(amt_str) of a \d+\.\d{2} token, as a number of hundredths
float_of(amt_str) ==
    LET n == Len(amt_str)
    IN 100 * int_of(SubSeq(amt_str, 1, n - 1 - AmountDecimals)) + int_of(SubSeq(amt_str, n - AmountDecimals + 1, n))

\* The label of the whole page text given to every line of the page
line_label_page_scoped(lines, n) ==
    LET page_text == [k \in 1..Len(lines) |-> line_flat_of(lines[k])]
        found == {k \in 1..Len(lines) : detect_gn_label_on_page(page_text[k]) # None}
    IN IF found = {} THEN GN1
       ELSE detect_gn_label_on_page(page_text[CHOOSE a \in found : \A b \in found : a <= b])

\* found or "GN1"
or_default(found, default) == IF found # None THEN found ELSE default

\* line_GNF_label = detect_gn_label_on_page(line_flat) or "GN1"
line_label(lines, n) == or_default(detect_gn_label_on_page(line_flat_of(lines[n])), GN1)

\* The row built from one match m on a line whose label is label
row_of_match(m, label, fname) ==
    LET payment == float_of(strip(m.Amount))
    IN [ACCOUNTNUMBER |-> Empty,
        fullName |-> strip(m.Name),
        TOTALPLEDGEAMOUNT |-> IF DEFAULT_PLEDGE_EQUALS_PAYMENT THEN payment ELSE None,
        TOTALPAYMENTAMOUNT |-> payment,
        PAYMENTTYPE |-> strip(m.PaymentType),
        CHECKNUMBER |-> strip(m.CheckNumber),
        BOOKLABEL |-> label,
        DESPERCENTAGE |-> IF DEFAULT_PERCENTAGE_100 THEN 100 ELSE None,
        SourceFile |-> fname,
        Seq |-> strip(m.Seq),
        Account_fullName |-> Empty,
        Account_INDACCOUNTNUMBER |-> Empty]

RECURSIVE rows_of_matches(_, _, _)
rows_of_matches(ms, label, fname) ==
    IF ms = <<>> THEN <<>>
    ELSE <<row_of_match(ms[1], label, fname)>> \o rows_of_matches(Tail(ms), label, fname)

\* The body of the loop over the lines of a page: the rows of line n of the page
line_rows(lines, n, fname) ==
    rows_of_matches(finditer(line_flat_of(lines[n]), 1), line_label(lines, n), fname)

(***************************************************************************)
(* Specification SpecName: normalize_name_for_lookup applied once, then    *)
(* again to its own result.                                                *)
(***************************************************************************)
NameAlphabet == {"a", "b", "B", " ", "\t"}
FrederickBHussey == <<"F","R","E","D","E","R","I","C","K"," ","B"," ","H","U","S","S","E","Y">>
FHussey == <<"F"," ","H","U","S","S","E","Y">>

KeyIdle == INDFIRSTNAME = Empty /\ INDLASTNAME = Empty /\ abbrev_key = Empty /\ join_key = Empty
NameIdle == name = Empty /\ key1 = Empty /\ key2 = Empty
LineIdle == fields = <<>> /\ line = Empty /\ parsed = <<>>
ExtractIdle ==
    /\ doc = <<>> /\ pdf_name = "" /\ page_num = 0 /\ ln_num = 0
    /\ rows = <<>> /\ matched_any = FALSE /\ warnings = <<>> /\ origin = <<>>
LookupIdle ==
    /\ lookup_file = [exists |-> FALSE] /\ lookup_df = [none |-> TRUE]
    /\ lookup_outcome = "not_called" /\ df = <<>> /\ df_in = <<>> /\ df_dup = <<>>
MainIdle ==
    /\ input_dir = <<>> /\ pdf_files = <<>> /\ file_idx = 0 /\ all_rows = <<>>
    /\ all_origin = <<>> /\ log = <<>> /\ calls = <<>> /\ written = <<>>

InitName ==
    /\ pc = "name"
    /\ name \in StringsUpTo(NameAlphabet, MaxNameLen) \cup {FrederickBHussey}
    /\ key1 = Empty /\ key2 = Empty
    /\ KeyIdle /\ LineIdle /\ ExtractIdle /\ LookupIdle /\ MainIdle

NormalizeOnce ==
    /\ pc = "name"
    /\ key1' = normalize_name_for_lookup(name)
    /\ pc' = "once"
    /\ UNCHANGED <<name, key2, keyVars, lineVars, extractVars, lookupVars, mainVars>>

NormalizeTwice ==
    /\ pc = "once"
    /\ key2' = normalize_name_for_lookup(key1)
    /\ pc' = "twice"
    /\ UNCHANGED <<name, key1, keyVars, lineVars, extractVars, lookupVars, mainVars>>

NextName == NormalizeOnce \/ NormalizeTwice
SpecName == InitName /\ [][NextName]_vars

\* C10: normalize_name_for_lookup is idempotent, and its result is the upper-case
\* initial of the first token, a space and the upper-case last token when the name
\* has at least two tokens, the upper-case trimmed name otherwise.
NormalizeIdempotent ==
    /\ pc \in {"once", "twice"} =>
         LET toks == split(name)
         IN IF Len(toks) >= 2
            THEN key1 = <<UpperChar(toks[1][1])>> \o <<" ">> \o upper(toks[Len(toks)])
            ELSE key1 = upper(strip(name))
    /\ pc = "twice" => key2 = key1

NormalizeIdempotentWitness ==
    /\ pc = "twice"
    /\ name = FrederickBHussey
    /\ key1 = FHussey
    /\ key2 = FHussey

(***************************************************************************)
(* Specification SpecKeys: the two derivations of the join key for one     *)
(* lookup row (first name F, last name L) and the donor name 'F L'.        *)
(***************************************************************************)
CellAlphabet == {"a", "B", " "}
\* read_csv yields no empty cell (an empty cell is read as missing); the rows
\* of interest carry a name, so a cell holds at least one non-space character
Cells == {c \in StringsUpTo(CellAlphabet, MaxCellLen) : strip(c) # Empty}

InitKeys ==
    /\ pc = "cells"
    /\ INDFIRSTNAME \in Cells
    /\ INDLASTNAME \in Cells
    /\ abbrev_key = Empty /\ join_key = Empty
    /\ NameIdle /\ LineIdle /\ ExtractIdle /\ LookupIdle /\ MainIdle

DeriveKeys ==
    /\ pc = "cells"
    /\ abbrev_key' = lookup_abbrev_key(INDFIRSTNAME, INDLASTNAME)
    /\ join_key' = normalize_name_for_lookup(INDFIRSTNAME \o <<" ">> \o INDLASTNAME)
    /\ pc' = "keyed"
    /\ UNCHANGED <<INDFIRSTNAME, INDLASTNAME, nameVars, lineVars, extractVars, lookupVars, mainVars>>

NextKeys == DeriveKeys
SpecKeys == InitKeys /\ [][NextKeys]_vars

\* C5: the key load_account_lookup derives from (F, L) equals
\* normalize_name_for_lookup('F L').
KeyDerivationsAgree == pc = "keyed" => abbrev_key = join_key

(***************************************************************************)
(* Specification SpecLine: a line built from known field values, joined    *)
(* by single spaces, and given to the line parser.                         *)
(***************************************************************************)
Seq1 == <<"5","2","5","0","0","3","1","1","4","3","2","8","6">>
TokAL == <<"A","L">>
Tok12 == <<"1","2">>
TokCash == <<"C","a","s","h">>
Tok500 == <<"5",".","0","0">>
Check2727 == <<"2","7","2","7">>
CheckTenDigits == <<"1","2","3","4","5","6","7","8","9","0">>
Amount10000 == <<"1","0","0",".","0","0">>
Amount007 == <<"0",".","0","7">>
Batch4600055 == <<"4","6","0","0","0","5","5">>
Batch7 == <<"7">>

\* The tokens a name is made of: a word and the three shapes the pattern looks for
NameTokens == {TokAL, Tok12, TokCash, Tok500}

RECURSIVE JoinTokens(_)
JoinTokens(toks) ==
    IF Len(toks) = 0 THEN Empty
    ELSE IF Len(toks) = 1 THEN toks[1]
    ELSE toks[1] \o <<" ">> \o JoinTokens(Tail(toks))

\* Non-empty whitespace-normalised names of at most MaxNameTokens tokens
LineNames == {JoinTokens(t) : t \in UNION {[1..k -> NameTokens] : k \in 1..MaxNameTokens}}

InitLine ==
    /\ pc = "fields"
    /\ fields \in [S : {Seq1},
                   N : LineNames,
                   C : {Check2727, CheckTenDigits},
                   T : {PaymentTypes[t] : t \in 1..Len(PaymentTypes)},
                   A : {Amount10000, Amount007},
                   B : {Batch4600055, Batch7}]
    /\ line = Empty /\ parsed = <<>>
    /\ NameIdle /\ KeyIdle /\ ExtractIdle /\ LookupIdle /\ MainIdle

BuildLine ==
    /\ pc = "fields"
    /\ line' = JoinTokens(<<fields.S, fields.N, fields.C, fields.T, fields.A, fields.B>>)
    /\ pc' = "built"
    /\ UNCHANGED <<fields, parsed, nameVars, keyVars, extractVars, lookupVars, mainVars>>

ParseLine ==
    /\ pc = "built"
    /\ parsed' = line_rows(<<line>>, 1, "a.pdf")
    /\ pc' = "parsed"
    /\ UNCHANGED <<fields, line, nameVars, keyVars, extractVars, lookupVars, mainVars>>

NextLine == BuildLine \/ ParseLine
SpecLine == InitLine /\ [][NextLine]_vars

\* Shapes of whole tokens, as the claim words them
IsCheckToken(t) == Len(t) >= 1 /\ Len(t) <= 10 /\ \A k \in 1..Len(t) : IsDigit(t[k])
IsTypeToken(t) == \E k \in 1..Len(PaymentTypes) : t = PaymentTypes[k]
IsAmountToken(t) ==
    /\ Len(t) >= 4
    /\ t[Len(t) - 2] = "."
    /\ \A k \in 1..Len(t) : k # Len(t) - 2 => IsDigit(t[k])

\* The name holds, after its first token, a check-number token, a payment
\* type and an amount token that are followed by a token starting with a
\* digit or by the end of the name (where the check number C follows)
HasEmbeddedTransaction(nm) ==
    LET toks == split(nm)
    IN \E j \in 2..(Len(toks) - 2) :
          /\ IsCheckToken(toks[j])
          /\ IsTypeToken(toks[j + 1])
          /\ IsAmountToken(toks[j + 2])
          /\ (j + 2 = Len(toks) \/ IsDigit(toks[j + 3][1]))

RecordMatchesFields(r) ==
    /\ r.Seq = fields.S
    /\ r.fullName = fields.N
    /\ r.CHECKNUMBER = fields.C
    /\ r.PAYMENTTYPE = fields.T
    /\ r.TOTALPAYMENTAMOUNT = float_of(fields.A)

\* C1 as claimed: for every name N the line 'S N C T A B' yields a record
\* whose Seq, fullName, CHECKNUMBER, PAYMENTTYPE and payment amount are S, N, C,
\* T and the value of A.
RoundTripEveryName ==
    pc = "parsed" => \E k \in 1..Len(parsed) : RecordMatchesFields(parsed[k])

\* C1 amended: the round trip holds for every name that holds no embedded
\* check-number / payment-type / amount token run after its first token; the
\* line then yields exactly that one record.
RoundTripPlainNames ==
    (pc = "parsed" /\ ~HasEmbeddedTransaction(fields.N)) =>
        /\ Len(parsed) = 1
        /\ RecordMatchesFields(parsed[1])
        /\ parsed[1].TOTALPAYMENTAMOUNT \in {10000, 7}

RoundTripWitness ==
    /\ pc = "parsed"
    /\ fields.N = JoinTokens(<<TokAL, Tok12, TokCash>>)
    /\ fields.C = CheckTenDigits
    /\ fields.A = Amount007
    /\ Len(parsed) = 1
    /\ parsed[1].fullName = fields.N
    /\ parsed[1].CHECKNUMBER = CheckTenDigits
    /\ parsed[1].TOTALPAYMENTAMOUNT = 7

(***************************************************************************)
(* extract_rows_from_pdf, stepped page by page and line by line            *)
(***************************************************************************)
NextPage ==
    /\ pc = "page_loop"
    /\ page_num < Len(doc)
    /\ page_num' = page_num + 1
    /\ ln_num' = 0
    /\ matched_any' = FALSE
    /\ pc' = "line_loop"
    /\ UNCHANGED <<doc, pdf_name, rows, warnings, origin>>
    /\ UNCHANGED <<nameVars, keyVars, lineVars, lookupVars, mainVars>>

ProcessLine ==
    /\ pc = "line_loop"
    /\ ln_num < Len(doc[page_num])
    /\ rows' = rows \o line_rows(doc[page_num], ln_num + 1, pdf_name)
    /\ origin' = origin \o [k \in 1..(Len(rows') - Len(rows)) |->
                              [file |-> pdf_name, page |-> page_num, ln |-> ln_num + 1]]
    /\ matched_any' = (matched_any \/ Len(rows') > Len(rows))
    /\ ln_num' = ln_num + 1
    /\ UNCHANGED <<pc, doc, pdf_name, page_num, warnings>>
    /\ UNCHANGED <<nameVars, keyVars, lineVars, lookupVars, mainVars>>

EndPage ==
    /\ pc = "line_loop"
    /\ ln_num = Len(doc[page_num])
    /\ warnings' = IF matched_any THEN warnings
                   ELSE Append(warnings, [file |-> pdf_name, page |-> page_num])
    /\ pc' = "page_loop"
    /\ UNCHANGED <<doc, pdf_name, page_num, ln_num, rows, matched_any, origin>>
    /\ UNCHANGED <<nameVars, keyVars, lineVars, lookupVars, mainVars>>

ReturnRows ==
    /\ pc = "page_loop"
    /\ page_num = Len(doc)
    /\ pc' = "returned"
    /\ UNCHANGED <<extractVars, nameVars, keyVars, lineVars, lookupVars, mainVars>>

(***************************************************************************)
(* Specification SpecExtract: extract_rows_from_pdf on one document.       *)
(***************************************************************************)
\* Example line of the source: no label on the line
LinePlain == <<"5","2","5","0","0","3","1","1","4","3","2","8","6"," ","J","A","M","E","S"," ","B","O","Y","D"," ","2","7","2","7"," ","C","h","e","c","k"," ","1","0","0",".","0","0"," ","4","6","0","0","0","5","5">>
\* A record with the label GN-4 on its line, and a tab and double spaces
LineGN4 == <<"5","2","5","0","0","3","1","1","4","3","2","8","7"," ","\t","A","L"," "," ","G","N","-","4"," ","2","7"," ","C","a","s","h"," ","5",".","0","0"," ","4","6">>
\* A line that holds a label and no record
LineLabelOnly == <<"G","N"," ","3">>
\* Two records concatenated on one line, the label gn7 in the second
LineTwoRecords == <<"5","2","5","0","0","3","1","1","4","3","2","8","8"," ","A","L"," ","1"," ","A","C","H"," ","1",".","0","0"," ","1"," ","5","2","5","0","0","3","1","1","4","3","2","8","9"," ","B","O"," ","g","n","7"," ","2"," ","C","a","r","d"," ","2",".","0","0"," ","2">>
\* A sequence number, two spaces and no name before the check number
LineNoName == <<"5","2","5","0","0","3","1","1","4","3","2","9","0"," "," ","1","2"," ","C","h","e","c","k"," ","5",".","0","0"," ","7">>

RawLines == {LinePlain, LineGN4, LineLabelOnly, LineTwoRecords, LineNoName}

\* The k-th smallest element of a set of integers
KthOf(S, k) == CHOOSE x \in S : Cardinality({y \in S : y < x}) = k - 1

\* The lines ls cut into pages after the positions in cuts
PagesOf(ls, cuts) ==
    LET starts == {1} \cup {c + 1 : c \in cuts}
        np == Cardinality(starts)
    IN [k \in 1..np |->
          SubSeq(ls, KthOf(starts, k),
                 IF k = np THEN Len(ls) ELSE KthOf(starts, k + 1) - 1)]

\* A document with no page, a document of one scanned (empty) page, and every
\* way to lay at most MaxDocLines lines out on pages
ExtractDocs ==
    {<<>>, << <<>> >>} \cup
    UNION {{PagesOf(ls, cuts) : cuts \in SUBSET (1..(Len(ls) - 1))} :
              ls \in UNION {[1..k -> RawLines] : k \in 1..MaxDocLines}}

InitExtract ==
    /\ pc = "page_loop"
    /\ doc \in ExtractDocs
    /\ pdf_name = "a.pdf"
    /\ page_num = 0 /\ ln_num = 0
    /\ rows = <<>> /\ matched_any = FALSE /\ warnings = <<>> /\ origin = <<>>
    /\ NameIdle /\ KeyIdle /\ LineIdle /\ LookupIdle /\ MainIdle

NextExtract == NextPage \/ ProcessLine \/ EndPage \/ ReturnRows
SpecExtract == InitExtract /\ [][NextExtract]_vars

\* The raw line a row was parsed from
OwnLine(k) == doc[origin[k].page][origin[k].ln]

\* C2: every record of the accumulator has a non-empty donor name, a payment
\* type among Check, Cash, Card, ACH, and a payment amount that is the value of
\* a digits-and-two-decimals token of its line.
RecordInvariant ==
    \A k \in 1..Len(rows) :
        /\ strip(rows[k].fullName) # Empty
        /\ IsTypeToken(rows[k].PAYMENTTYPE)
        /\ LET toks == split(OwnLine(k))
           IN \E i \in 1..Len(toks) :
                 IsAmountToken(toks[i]) /\ rows[k].TOTALPAYMENTAMOUNT = float_of(toks[i])

RecordInvariantWitness ==
    /\ pc = "returned"
    /\ \E p \in 1..Len(doc) : \E i \in 1..Len(doc[p]) : doc[p][i] = LineNoName
    /\ \E k \in 1..Len(rows) :
          /\ OwnLine(k) = LineGN4
          /\ rows[k].fullName = <<"A","L"," ","G","N","-","4">>
          /\ rows[k].TOTALPAYMENTAMOUNT = 500

\* C3: the book label of a record is the label detected on the record's own
\* line, and GN1 when none is detected there; no other line has a say.
LabelIsLineScoped ==
    \A k \in 1..Len(rows) :
        LET detected == detect_gn_label_on_page(line_flat_of(OwnLine(k)))
        IN /\ detected # None => rows[k].BOOKLABEL = detected
           /\ detected = None => rows[k].BOOKLABEL = GN1

LabelIsLineScopedWitness ==
    /\ pc = "returned"
    /\ \E k \in 1..Len(rows) :
          /\ origin[k].ln = 2
          /\ doc[origin[k].page] = <<LineLabelOnly, LinePlain, LineGN4>>
          /\ rows[k].BOOKLABEL = GN1
          /\ rows[k + 1].BOOKLABEL = <<"G","N","4">>

(***************************************************************************)
(* load_account_lookup                                                     *)
(***************************************************************************)
ColFullName == <<"f","u","l","l","N","a","m","e">>
ColFullNamePadded == <<" ","f","u","l","l","N","a","m","e"," ">>
ColAccount == <<"I","N","D","A","C","C","O","U","N","T","N","U","M","B","E","R">>
ColFirst == <<"I","N","D","F","I","R","S","T","N","A","M","E">>
ColLast == <<"I","N","D","L","A","S","T","N","A","M","E">>

\* The rows of t whose index is in idx, in their order
RowsAt(t, idx) == [k \in 1..Cardinality(idx) |-> t[KthOf(idx, k)]]

\* drop_duplicates(subset="abbrev_key") that keeps the last row of each key
drop_duplicate_keys_keep_last(t) ==
    RowsAt(t, {i \in 1..Len(t) : \A j \in (i + 1)..Len(t) : t[j].abbrev_key # t[i].abbrev_key})

\* drop_duplicates(subset="abbrev_key"): the first row of each key is kept
drop_duplicate_keys(t) ==
    RowsAt(t, {i \in 1..Len(t) : \A j \in 1..(i - 1) : t[j].abbrev_key # t[i].abbrev_key})

\* df[["abbrev_key", "fullName", "INDACCOUNTNUMBER"]] with the derived key
keyed_lookup_rows(csv_rows) ==
    [i \in 1..Len(csv_rows) |->
        [abbrev_key |-> lookup_abbrev_key(csv_rows[i].INDFIRSTNAME, csv_rows[i].INDLASTNAME),
         fullName |-> csv_rows[i].fullName,
         INDACCOUNTNUMBER |-> csv_rows[i].INDACCOUNTNUMBER]]

NoTable == [none |-> TRUE]

\* How load_account_lookup ends for the file f, and what it returns
load_account_lookup(f) ==
    IF ~f.exists
    THEN [outcome |-> "warned_not_found", result |-> NoTable]
    ELSE LET columns == {strip(f.columns[i]) : i \in 1..Len(f.columns)}
         IN IF ~({ColFullName, ColAccount} \subseteq columns)
            THEN [outcome |-> "warned_columns", result |-> NoTable]
            ELSE IF ~({ColFirst, ColLast} \subseteq columns)
            THEN [outcome |-> "KeyError", result |-> NoTable]
            ELSE [outcome |-> "table",
                  result |-> [none |-> FALSE,
                              rows |-> drop_duplicate_keys(keyed_lookup_rows(f.rows))]]

(***************************************************************************)
(* apply_account_lookup                                                    *)
(***************************************************************************)
\* Series.fillna("")
fillna(cell) == IF cell = NaN THEN Empty ELSE cell

\* A fill that does not look at the current account number
fill_account_number_always(acct, ind) == IF ind # NaN THEN ind ELSE acct

\* mask_condition = ACCOUNTNUMBER.eq("") & INDACCOUNTNUMBER.notna(); mask(...)
fill_account_number(acct, ind) == IF acct = Empty /\ ind # NaN THEN ind ELSE acct

\* One row of the merged table: the record r with the lookup cells joined to it
enriched_row(r, lk_fullName, lk_account) ==
    [r EXCEPT !.ACCOUNTNUMBER = fill_account_number(r.ACCOUNTNUMBER, lk_account),
              !.Account_fullName = fillna(lk_fullName),
              !.Account_INDACCOUNTNUMBER = fillna(lk_account)]

\* The rows a left merge yields for the record r: one per lookup row with its
\* key, in lookup order, or one with missing lookup cells when there is none
merged_rows(r, lk) ==
    LET key == normalize_name_for_lookup(r.fullName)
        hits == {j \in 1..Len(lk) : lk[j].abbrev_key = key}
    IN IF hits = {} THEN <<enriched_row(r, NaN, NaN)>>
       ELSE [k \in 1..Cardinality(hits) |->
               enriched_row(r, lk[KthOf(hits, k)].fullName, lk[KthOf(hits, k)].INDACCOUNTNUMBER)]

RECURSIVE merge_left(_, _)
merge_left(t, lk) ==
    IF t = <<>> THEN <<>>
    ELSE merged_rows(t[1], lk) \o merge_left(Tail(t), lk)

apply_account_lookup(t, lookup) ==
    IF lookup.none THEN t
    ELSE IF lookup.rows = <<>> \/ t = <<>> THEN t
    ELSE merge_left(t, lookup.rows)

(***************************************************************************)
(* main                                                                    *)
(***************************************************************************)
TARGET_COLUMNS ==
    {"ACCOUNTNUMBER", "fullName", "TOTALPLEDGEAMOUNT", "TOTALPAYMENTAMOUNT", "PAYMENTTYPE",
     "CHECKNUMBER", "BOOKLABEL", "DESPERCENTAGE", "SourceFile", "Seq",
     "Account_fullName", "Account_INDACCOUNTNUMBER"}

\* The file names in the order sorted() gives them
FileOrder == <<"a.pdf", "b.pdf", "c.pdf">>
FileRank(f) == CHOOSE k \in 1..Len(FileOrder) : FileOrder[k] = f

\* The names as globbed, left in directory order
sorted_not_applied(names) == names

\* sorted(...)
sorted(names) ==
    [k \in 1..Len(names) |->
        CHOOSE f \in {names[i] : i \in 1..Len(names)} :
            Cardinality({g \in {names[i] : i \in 1..Len(names)} : FileRank(g) < FileRank(f)}) = k - 1]

\* A check that never reports an empty accumulator
no_rows_never(all) == FALSE

\* if not all_rows
no_rows(all) == all = <<>>

\* pd.DataFrame([{c: r.get(c, "") for c in TARGET_COLUMNS} for r in all_rows]);
\* the three numeric columns hold Python numbers, which to_numeric leaves as they are
build_dataframe(all) == [i \in 1..Len(all) |-> [c \in TARGET_COLUMNS |-> all[i][c]]]

\* drop_duplicates() that keeps the last of equal rows
drop_duplicates_keep_last(t) ==
    RowsAt(t, {i \in 1..Len(t) : \A j \in (i + 1)..Len(t) : t[j] # t[i]})

\* df.drop_duplicates(): the first of equal rows is kept
drop_duplicates(t) ==
    RowsAt(t, {i \in 1..Len(t) : \A j \in 1..(i - 1) : t[j] # t[i]})

\* All orders in which glob can list the names of S
Orders(S) == {o \in [1..Cardinality(S) -> S] : \A i, j \in 1..Cardinality(S) : i # j => o[i] # o[j]}

ListPdfs ==
    /\ pc = "main"
    /\ \E globbed \in Orders(DOMAIN input_dir) : pdf_files' = sorted(globbed)
    /\ IF DOMAIN input_dir = {}
       THEN log' = Append(log, "WARN no PDFs found") /\ pc' = "done"
       ELSE log' = log /\ pc' = "next_pdf"
    /\ UNCHANGED <<input_dir, file_idx, all_rows, all_origin, calls, written>>
    /\ UNCHANGED <<nameVars, keyVars, lineVars, extractVars, lookupVars>>

\* rows = extract_rows_from_pdf(pdf_path): the call
OpenPdf ==
    /\ pc = "next_pdf"
    /\ file_idx < Len(pdf_files)
    /\ pdf_name' = pdf_files[file_idx + 1]
    /\ doc' = input_dir[pdf_files[file_idx + 1]]
    /\ page_num' = 0 /\ ln_num' = 0 /\ matched_any' = FALSE
    /\ rows' = <<>> /\ origin' = <<>>
    /\ pc' = "page_loop"
    /\ UNCHANGED <<warnings, nameVars, keyVars, lineVars, lookupVars, mainVars>>

\* all_rows.extend(rows), after the call returned
CollectRows ==
    /\ pc = "returned"
    /\ all_rows' = all_rows \o rows
    /\ all_origin' = all_origin \o origin
    /\ log' = Append(log, "OK extracted")
    /\ file_idx' = file_idx + 1
    /\ pc' = "next_pdf"
    /\ UNCHANGED <<input_dir, pdf_files, calls, written>>
    /\ UNCHANGED <<nameVars, keyVars, lineVars, extractVars, lookupVars>>

\* After the loop: stop when no row was extracted, else build the DataFrame
BuildDataFrame ==
    /\ pc = "next_pdf"
    /\ file_idx = Len(pdf_files)
    /\ IF no_rows(all_rows)
       THEN /\ log' = Append(log, "ERROR no rows extracted")
            /\ pc' = "done"
            /\ UNCHANGED <<df, df_in>>
       ELSE /\ df' = build_dataframe(all_rows)
            /\ df_in' = build_dataframe(all_rows)
            /\ log' = log
            /\ pc' = "load_lookup"
    /\ UNCHANGED <<lookup_file, lookup_df, lookup_outcome, df_dup>>
    /\ UNCHANGED <<input_dir, pdf_files, file_idx, all_rows, all_origin, calls, written>>
    /\ UNCHANGED <<nameVars, keyVars, lineVars, extractVars>>

LoadLookup ==
    /\ pc = "load_lookup"
    /\ LET r == load_account_lookup(lookup_file)
       IN /\ lookup_outcome' = r.outcome
          /\ lookup_df' = r.result
          /\ pc' = IF r.outcome = "KeyError" THEN "crashed" ELSE "apply_lookup"
          /\ log' = IF r.outcome \in {"warned_not_found", "warned_columns"}
                    THEN Append(log, "WARN lookup")
                    ELSE log
    /\ calls' = Append(calls, "load_account_lookup")
    /\ UNCHANGED <<lookup_file, df, df_in, df_dup>>
    /\ UNCHANGED <<input_dir, pdf_files, file_idx, all_rows, all_origin, written>>
    /\ UNCHANGED <<nameVars, keyVars, lineVars, extractVars>>

ApplyLookup ==
    /\ pc = "apply_lookup"
    /\ df' = apply_account_lookup(df, lookup_df)
    /\ calls' = Append(calls, "apply_account_lookup")
    /\ pc' = "drop_duplicates"
    /\ UNCHANGED <<lookup_file, lookup_df, lookup_outcome, df_in, df_dup>>
    /\ UNCHANGED <<input_dir, pdf_files, file_idx, all_rows, all_origin, log, written>>
    /\ UNCHANGED <<nameVars, keyVars, lineVars, extractVars>>

DropDuplicates ==
    /\ pc = "drop_duplicates"
    /\ df_dup' = df
    /\ df' = drop_duplicates(df)
    /\ calls' = Append(calls, "drop_duplicates")
    /\ pc' = "save"
    /\ UNCHANGED <<lookup_file, lookup_df, lookup_outcome, df_in>>
    /\ UNCHANGED <<input_dir, pdf_files, file_idx, all_rows, all_origin, log, written>>
    /\ UNCHANGED <<nameVars, keyVars, lineVars, extractVars>>

SaveExcel ==
    /\ pc = "save"
    /\ written' = Append(written, df)
    /\ calls' = Append(calls, "to_excel")
    /\ log' = Append(log, "DONE saved")
    /\ pc' = "done"
    /\ UNCHANGED <<input_dir, pdf_files, file_idx, all_rows, all_origin>>
    /\ UNCHANGED <<nameVars, keyVars, lineVars, extractVars, lookupVars>>

(***************************************************************************)
(* Specification SpecLookup: load_account_lookup and apply_account_lookup  *)
(* on bounded tables.  The lookup table is either loaded from a CSV or     *)
(* handed to apply_account_lookup as it is (any keys, or no table).        *)
(***************************************************************************)
CellAl == <<"A","l">>
CellAnn == <<"a","n","n">>
CellBoydPadded == <<" ","B","o","y","d">>
NameAlBoyd == <<"A","L"," ","B","O","Y","D">>
NameAnnBoyd == <<"A","N","N"," ","B","O","Y","D">>
AcctA1 == <<"A","1">>
AcctA2 == <<"A","2">>
AcctP9 == <<"P","9">>
DonorAlJBoyd == <<"a","l"," ","j"," ","b","o","y","d">>
DonorCyCole == <<"c","y"," ","c","o","l","e">>
DonorDee == <<"D","E","E">>
KeyABoyd == <<"A"," ","B","O","Y","D">>

CsvRow(first, last, full, account) ==
    [INDFIRSTNAME |-> first, INDLASTNAME |-> last, fullName |-> full, INDACCOUNTNUMBER |-> account]

\* Three rows with the key 'A BOYD' (one of them with missing cells) and one
\* with the key 'C COLE'
LookupRowChoices ==
    {CsvRow(CellAl, CellBoydPadded, NameAlBoyd, AcctA1),
     CsvRow(CellAnn, CellBoydPadded, NameAnnBoyd, AcctA2),
     CsvRow(CellAnn, CellBoydPadded, NaN, NaN),
     CsvRow(<<"C","y">>, <<"C","o","l","e">>, <<"C","Y"," ","C","O","L","E">>, <<"A","3">>)}

AllColumns == <<ColFirst, ColLast, ColFullNamePadded, ColAccount>>

\* A record as the parser builds it, with a given name and account number
DonorRow(donor, account) ==
    [ACCOUNTNUMBER |-> account,
     fullName |-> donor,
     TOTALPLEDGEAMOUNT |-> 10000,
     TOTALPAYMENTAMOUNT |-> 10000,
     PAYMENTTYPE |-> PaymentTypes[1],
     CHECKNUMBER |-> Check2727,
     BOOKLABEL |-> GN1,
     DESPERCENTAGE |-> 100,
     SourceFile |-> "a.pdf",
     Seq |-> Seq1,
     Account_fullName |-> Empty,
     Account_INDACCOUNTNUMBER |-> Empty]

\* Records with an empty and with a populated account number, with a name whose
\* key is in the lookup rows and with one whose key is not
DonorRowChoices ==
    {DonorRow(DonorAlJBoyd, Empty), DonorRow(DonorAlJBoyd, AcctP9),
     DonorRow(DonorCyCole, Empty), DonorRow(DonorDee, AcctP9)}

TablesUpTo(choices, n) == UNION {[1..k -> choices] : k \in 0..n}

InitLookup ==
    /\ df \in TablesUpTo(DonorRowChoices, MaxRows)
    /\ df_in = df
    /\ df_dup = <<>>
    /\ \E csv_rows \in TablesUpTo(LookupRowChoices, MaxLookupRows) :
          /\ lookup_file = [exists |-> TRUE, columns |-> AllColumns, rows |-> csv_rows]
          /\ \/ pc = "load_lookup" /\ lookup_df = NoTable /\ lookup_outcome = "not_called"
             \/ /\ pc = "apply_lookup"
                /\ lookup_df = [none |-> FALSE, rows |-> keyed_lookup_rows(csv_rows)]
                /\ lookup_outcome = "given"
             \/ /\ pc = "apply_lookup"
                /\ csv_rows = <<>>
                /\ lookup_df = NoTable
                /\ lookup_outcome = "given"
    /\ NameIdle /\ KeyIdle /\ LineIdle /\ ExtractIdle /\ MainIdle

NextLookup == LoadLookup \/ ApplyLookup
SpecLookup == InitLookup /\ [][NextLookup]_vars

Applied == pc = "drop_duplicates"

\* The number of rows the left join yields for record i of the input table
Copies(i) ==
    IF lookup_df.none THEN 1
    ELSE IF lookup_df.rows = <<>> THEN 1
    ELSE LET n == Cardinality({j \in 1..Len(lookup_df.rows) :
                     lookup_df.rows[j].abbrev_key = normalize_name_for_lookup(df_in[i].fullName)})
         IN IF n = 0 THEN 1 ELSE n

RECURSIVE CopiesUpTo(_)
CopiesUpTo(i) == IF i = 0 THEN 0 ELSE CopiesUpTo(i - 1) + Copies(i)

\* The input record that row k of the result comes from
SourceOf(k) == CHOOSE i \in 1..Len(df_in) : CopiesUpTo(i - 1) < k /\ k <= CopiesUpTo(i)

ParsedFields ==
    {"fullName", "TOTALPLEDGEAMOUNT", "TOTALPAYMENTAMOUNT", "PAYMENTTYPE", "CHECKNUMBER",
     "BOOKLABEL", "DESPERCENTAGE", "SourceFile", "Seq"}

\* C4: apply_account_lookup leaves a populated account number as it is, for any
\* input table and any lookup table, and changes no parsed field of any record.
PopulatedAccountKept ==
    Applied =>
        /\ Len(df) = CopiesUpTo(Len(df_in))
        /\ \A k \in 1..Len(df) :
              LET r == df_in[SourceOf(k)]
              IN /\ \A c \in ParsedFields : df[k][c] = r[c]
                 /\ r.ACCOUNTNUMBER # Empty => df[k].ACCOUNTNUMBER = r.ACCOUNTNUMBER

PopulatedAccountKeptWitness ==
    /\ Applied
    /\ Len(df_in) = 2
    /\ df_in[1].ACCOUNTNUMBER = AcctP9 /\ df_in[1].fullName = DonorAlJBoyd
    /\ df_in[2].ACCOUNTNUMBER = Empty /\ df_in[2].fullName = DonorAlJBoyd
    /\ Len(df) = 2
    /\ df[1].ACCOUNTNUMBER = AcctP9 /\ df[1].Account_INDACCOUNTNUMBER = AcctA1
    /\ df[2].ACCOUNTNUMBER = AcctA1

\* C7: of the lookup rows that share a key, the first in file order is the one
\* kept; every record is enriched from it, and the join yields one row a record.
FirstOccurrenceWins ==
    (Applied /\ lookup_outcome = "table") =>
        /\ Len(df) = Len(df_in)
        /\ \A i, j \in 1..Len(lookup_df.rows) :
              i # j => lookup_df.rows[i].abbrev_key # lookup_df.rows[j].abbrev_key
        /\ \A i \in 1..Len(df_in) :
              LET key == normalize_name_for_lookup(df_in[i].fullName)
                  same == {j \in 1..Len(lookup_file.rows) :
                              lookup_abbrev_key(lookup_file.rows[j].INDFIRSTNAME,
                                                lookup_file.rows[j].INDLASTNAME) = key}
              IN IF same = {}
                 THEN /\ df[i].ACCOUNTNUMBER = df_in[i].ACCOUNTNUMBER
                      /\ df[i].Account_fullName = Empty
                      /\ df[i].Account_INDACCOUNTNUMBER = Empty
                 ELSE LET first == lookup_file.rows[CHOOSE a \in same : \A b \in same : a <= b]
                      IN /\ df[i].Account_fullName =
                               (IF first.fullName = NaN THEN Empty ELSE first.fullName)
                         /\ df[i].Account_INDACCOUNTNUMBER =
                               (IF first.INDACCOUNTNUMBER = NaN THEN Empty ELSE first.INDACCOUNTNUMBER)
                         /\ df[i].ACCOUNTNUMBER =
                               (IF df_in[i].ACCOUNTNUMBER = Empty /\ first.INDACCOUNTNUMBER # NaN
                                THEN first.INDACCOUNTNUMBER
                                ELSE df_in[i].ACCOUNTNUMBER)

FirstOccurrenceWinsWitness ==
    /\ Applied /\ lookup_outcome = "table"
    /\ Len(lookup_file.rows) = 2
    /\ lookup_file.rows[1].INDACCOUNTNUMBER = AcctA1
    /\ lookup_file.rows[2].INDACCOUNTNUMBER = AcctA2
    /\ Len(lookup_df.rows) = 1
    /\ lookup_df.rows[1].abbrev_key = KeyABoyd
    /\ Len(df) = 1
    /\ df_in[1].ACCOUNTNUMBER = Empty
    /\ df[1].ACCOUNTNUMBER = AcctA1
    /\ df[1].Account_fullName = NameAlBoyd
    /\ df[1].Account_INDACCOUNTNUMBER = AcctA1

(***************************************************************************)
(* Specification Spec: a run of main on an input folder and a lookup file. *)
(***************************************************************************)
\* The example line again with another amount: same sequence number and donor
LinePlainOtherAmount == <<"5","2","5","0","0","3","1","1","4","3","2","8","6"," ","J","A","M","E","S"," ","B","O","Y","D"," ","2","7","2","7"," ","C","h","e","c","k"," ","1","0","0",".","0","7"," ","4","6","0","0","0","5","5">>

\* One page whose first and third line are the same record
DocWithDuplicate == << <<LinePlain, LinePlainOtherAmount, LinePlain>> >>
\* A page with no transaction line, then a page with two records
DocTwoPages == << <<LineLabelOnly>>, <<LineGN4, LinePlain>> >>
\* A scanned page: no text
DocScanned == << <<>> >>
MainDocs == {DocWithDuplicate, DocTwoPages, DocScanned}

MainCsvRows == <<CsvRow(<<"J","a","m","e","s">>, <<"B","o","y","d">>, <<"J","A","M","E","S"," ","R"," ","B","O","Y","D">>, AcctA1)>>

\* The lookup file: absent; the pre-joined table of the docstring (fullName and
\* INDACCOUNTNUMBER only); a table without fullName; a table with all columns
MainLookupFiles ==
    {[exists |-> FALSE],
     [exists |-> TRUE, columns |-> <<ColFullName, ColAccount>>, rows |-> MainCsvRows],
     [exists |-> TRUE, columns |-> <<ColFirst, ColLast, ColAccount>>, rows |-> MainCsvRows],
     [exists |-> TRUE, columns |-> AllColumns, rows |-> MainCsvRows]}

FileNames == {FileOrder[k] : k \in 1..Len(FileOrder)}

Init ==
    /\ pc = "main"
    /\ \E names \in {S \in SUBSET FileNames : Cardinality(S) <= MaxFiles} :
          input_dir \in [names -> MainDocs]
    /\ pdf_files = <<>> /\ file_idx = 0 /\ all_rows = <<>> /\ all_origin = <<>>
    /\ log = <<>> /\ calls = <<>> /\ written = <<>>
    /\ lookup_file \in MainLookupFiles
    /\ lookup_df = NoTable /\ lookup_outcome = "not_called"
    /\ df = <<>> /\ df_in = <<>> /\ df_dup = <<>>
    /\ NameIdle /\ KeyIdle /\ LineIdle /\ ExtractIdle

Next ==
    \/ ListPdfs
    \/ OpenPdf
    \/ NextPage
    \/ ProcessLine
    \/ EndPage
    \/ ReturnRows
    \/ CollectRows
    \/ BuildDataFrame
    \/ LoadLookup
    \/ ApplyLookup
    \/ DropDuplicates
    \/ SaveExcel

Spec == Init /\ [][Next]_vars

\* C6 as claimed: whatever the state of the lookup file, load_account_lookup
\* ends with a warning or a table, never an error, and the run goes on; when
\* enrichment is skipped the exported records are the parsed ones.
LookupNeverFatal ==
    /\ lookup_outcome \in {"not_called", "warned_not_found", "warned_columns", "table"}
    /\ pc # "crashed"
    /\ (pc = "done" /\ lookup_outcome \in {"warned_not_found", "warned_columns"}) =>
          /\ Len(written) = 1
          /\ \A k \in 1..Len(written[1]) :
                /\ written[1][k] \in {all_rows[i] : i \in 1..Len(all_rows)}
                /\ written[1][k].ACCOUNTNUMBER = Empty
                /\ written[1][k].Account_fullName = Empty
                /\ written[1][k].Account_INDACCOUNTNUMBER = Empty

\* Position of the first row of t equal to r
FirstIndex(t, r) == CHOOSE i \in 1..Len(t) : t[i] = r /\ \A j \in 1..(i - 1) : t[j] # r

OriginNotAfter(a, b) ==
    \/ FileRank(a.file) < FileRank(b.file)
    \/ /\ a.file = b.file
       /\ \/ a.page < b.page
          \/ a.page = b.page /\ a.ln <= b.ln

\* C8: the records are accumulated in file-name order and, within a file, in
\* page-then-line order; the exported table is that sequence with every row
\* removed that equals an earlier row in all columns, and nothing else changed.
ExportIsOrderedDedup ==
    /\ \A i, j \in 1..Len(all_origin) : i < j => OriginNotAfter(all_origin[i], all_origin[j])
    /\ \A k \in 1..Len(all_rows) : all_rows[k].SourceFile = all_origin[k].file
    /\ (pc = "done" /\ written # <<>>) =>
          LET out == written[1]
          IN /\ Len(df_dup) = Len(all_rows)
             /\ \A k \in 1..Len(all_rows) : \A c \in ParsedFields : df_dup[k][c] = all_rows[k][c]
             /\ \A k \in 1..Len(df_dup) : \E a \in 1..Len(out) : out[a] = df_dup[k]
             /\ \A a \in 1..Len(out) : \E k \in 1..Len(df_dup) : out[a] = df_dup[k]
             /\ \A a, b \in 1..Len(out) :
                   a < b => FirstIndex(df_dup, out[a]) < FirstIndex(df_dup, out[b])

ExportIsOrderedDedupWitness ==
    /\ pc = "done"
    /\ pdf_files = <<"a.pdf", "b.pdf">>
    /\ input_dir["a.pdf"] = DocWithDuplicate
    /\ input_dir["b.pdf"] = DocTwoPages
    /\ Len(all_rows) = 5
    /\ Len(written) = 1
    /\ Len(written[1]) = 4
    /\ written[1][1].TOTALPAYMENTAMOUNT = 10000
    /\ written[1][2].TOTALPAYMENTAMOUNT = 10007
    /\ written[1][2].Seq = written[1][1].Seq
    /\ written[1][3].SourceFile = "b.pdf"

\* C9: with no document, or with no record extracted, the run ends after its
\* message with no lookup and no output file; the output file is written once,
\* as the last step, and only when a record was extracted.
NoOutputWithoutRecords ==
    /\ (pc = "done" /\ DOMAIN input_dir = {}) =>
          log = <<"WARN no PDFs found">> /\ calls = <<>> /\ written = <<>>
    /\ (pc = "done" /\ DOMAIN input_dir # {} /\ all_rows = <<>>) =>
          /\ log[Len(log)] = "ERROR no rows extracted"
          /\ calls = <<>>
          /\ written = <<>>
    /\ calls # <<>> => (all_rows # <<>> /\ file_idx = Len(pdf_files))
    /\ Len(written) <= 1
    /\ written # <<>> =>
          /\ pc = "done"
          /\ all_rows # <<>>
          /\ calls[Len(calls)] = "to_excel"
          /\ Cardinality({k \in 1..Len(calls) : calls[k] = "to_excel"}) = 1

NoOutputWithoutRecordsWitness ==
    /\ pc = "done"
    /\ DOMAIN input_dir = {"a.pdf", "b.pdf"}
    /\ all_rows = <<>>
    /\ Len(warnings) = 2
    /\ log = <<"OK extracted", "OK extracted", "ERROR no rows extracted">>
    /\ written = <<>>

====
